---- MODULE Spec2Model ----
(***************************************************************************)
(* Model of the survey-response analysis of utils/reportGenerator.js        *)
(* (ReportGenerator.generateAnalysis, generatePDF and the helpers they      *)
(* call) and of the request GET /api/responses/analysis of server.js that   *)
(* exports the stored responses and runs it; and of the handlers of         *)
(* server.js whose steps interleave: concurrent analysis requests, POST     *)
(* /api/signup with POST /api/verify-email, and DELETE /api/surveys/:id     *)
(* against POST /api/responses.                                             *)
(*                                                                          *)
(* Text.  A JavaScript string is modelled as the sequence of its lexemes:   *)
(* one lexeme per decimal digit, per blank and per comma, and one lexeme    *)
(* per maximal run of letters (a word).  "5 stars" is <<"5"," ","stars">>,  *)
(* "Gym, Lunch" is <<"Gym",","," ","Lunch">>.  The regular expressions,     *)
(* trim, split and includes of the source are defined on these sequences.   *)
(***************************************************************************)
EXTENDS Integers, Sequences, FiniteSets, TLC

VARIABLES
    csv,               \* the rows of the CSV file at this.csvPath
    pc,                \* position of generateAnalysis
    responses,         \* const responses = await this.readCSV()
    acc,               \* the four accumulators of calculateSatisfactionPercentage
    di,                \* index of the department being processed
    si,                \* index of the next (row, key) position of the running loop
    prev,              \* the (question, answer) pair the last loop step processed
    questionAnalysis,  \* const questionAnalysis = {} of the current department
    analysis,          \* const analysis = { overview, departmentStats }
    error,             \* message of the Error thrown, "" when none
    doc,               \* what generatePDF wrote to the report file
    store,             \* the Response documents of the database
    http,              \* what GET /api/responses/analysis sent to the client
    files,             \* the files of the server: path :> content
    clock,             \* Date.now()
    reqs,              \* the requests in flight: id :> the locals of its handler
    db                 \* the collections of the database the handlers use

\* the state of one analysis run, and the state the concurrent handlers share
run == <<csv, pc, responses, acc, di, si, prev, questionAnalysis, analysis, error,
         doc, store, http>>
server == <<files, clock, reqs, db>>

vars == <<run, server>>

-----------------------------------------------------------------------------
(* Lexemes *)

Digits == {"0", "1", "2", "3", "4", "5", "6", "7", "8", "9"}

DigitValue(c) ==
    CASE c = "0" -> 0 [] c = "1" -> 1 [] c = "2" -> 2 [] c = "3" -> 3
      [] c = "4" -> 4 [] c = "5" -> 5 [] c = "6" -> 6 [] c = "7" -> 7
      [] c = "8" -> 8 [] c = "9" -> 9

IsDigit(c) == c \in Digits

\* \s : the blank is the only white-space lexeme of the model
IsSpace(c) == c = " "

\* words w for which /^stars?$/i matches w
StarExactWords == {"star", "stars", "Star", "Stars", "STARS"}

\* words w for which /^stars?/i matches a prefix of w
StarPrefixWords == StarExactWords \cup {"starship"}

\* first index >= i of s that holds no digit (Len(s)+1 when there is none)
RECURSIVE DigitsEnd(_, _)
DigitsEnd(s, i) ==
    IF i <= Len(s) /\ IsDigit(s[i]) THEN DigitsEnd(s, i + 1) ELSE i

\* first index >= i of s that holds no blank (Len(s)+1 when there is none)
RECURSIVE SpacesEnd(_, _)
SpacesEnd(s, i) ==
    IF i <= Len(s) /\ IsSpace(s[i]) THEN SpacesEnd(s, i + 1) ELSE i

\* String.prototype.trim
RECURSIVE TrimEnd(_)
TrimEnd(s) ==
    IF Len(s) > 0 /\ IsSpace(s[Len(s)]) THEN TrimEnd(SubSeq(s, 1, Len(s) - 1)) ELSE s

Trim(s) == TrimEnd(SubSeq(s, SpacesEnd(s, 1), Len(s)))

\* answer.includes(',')
IncludesComma(s) == \E i \in 1..Len(s) : s[i] = ","

\* answer.split(',') : the pieces between the commas, in order
RECURSIVE SplitFrom(_, _, _)
SplitFrom(s, i, piece) ==
    IF i > Len(s) THEN <<piece>>
    ELSE IF s[i] = "," THEN <<piece>> \o SplitFrom(s, i + 1, <<>>)
    ELSE SplitFrom(s, i + 1, Append(piece, s[i]))

Split(s) == SplitFrom(s, 1, <<>>)

\* parseInt of a run of digits
RECURSIVE ParseDigits(_)
ParseDigits(ds) ==
    IF ds = <<>> THEN 0
    ELSE 10 * ParseDigits(SubSeq(ds, 1, Len(ds) - 1)) + DigitValue(ds[Len(ds)])

\* /(\d+)\s*stars?/i matches s starting at index i
StarMatchAt(s, i) ==
    /\ IsDigit(s[i])
    /\ LET k == SpacesEnd(s, DigitsEnd(s, i))
       IN  k <= Len(s) /\ s[k] \in StarPrefixWords

\* index of the leftmost match of /(\d+)\s*stars?/i in s, 0 when there is none
StarMatchPos(s) ==
    IF \E i \in 1..Len(s) : StarMatchAt(s, i)
    THEN CHOOSE i \in 1..Len(s) :
            StarMatchAt(s, i) /\ \A j \in 1..(i - 1) : ~StarMatchAt(s, j)
    ELSE 0

\* answer.match(/(\d+)\s*stars?/i) is not null
StarMatch(s) == StarMatchPos(s) # 0

\* parseInt(starMatch[1])
StarMatchCount(s) ==
    LET i == StarMatchPos(s)
    IN  ParseDigits(SubSeq(s, i, DigitsEnd(s, i) - 1))

\* /^\d+\s*stars?$/i .test(s)
StarPatternTest(s) ==
    /\ Len(s) > 0
    /\ IsDigit(s[1])
    /\ LET k == SpacesEnd(s, DigitsEnd(s, 1))
       IN  k = Len(s) /\ s[k] \in StarExactWords

-----------------------------------------------------------------------------
(* The fixed vocabulary *)

VerySatisfied == <<"Very", " ", "Satisfied">>
Satisfied == <<"Satisfied">>
Neutral == <<"Neutral">>
Dissatisfied == <<"Dissatisfied">>
VeryDissatisfied == <<"Very", " ", "Dissatisfied">>
NoAnswer == <<"No", " ", "answer">>

commonOptions == {VerySatisfied, Satisfied, Neutral, Dissatisfied, VeryDissatisfied}

satisfactionLevels(label) ==
    CASE label = VerySatisfied -> 100
      [] label = Satisfied -> 75
      [] label = Neutral -> 50
      [] label = Dissatisfied -> 25
      [] label = VeryDissatisfied -> 0

-----------------------------------------------------------------------------
(* Question Classifier *)

determineQuestionType(answer) ==
    IF StarMatch(answer) THEN "StarRating"
    ELSE IF IncludesComma(answer) THEN "Checkbox"
    ELSE IF answer \in commonOptions THEN "MCQ"
    ELSE "Text"

isStarRatingQuestion(question, answers) ==
    IF question = "" THEN FALSE
    ELSE \E i \in 1..Len(answers) :
            answers[i] # <<>> /\ StarPatternTest(Trim(answers[i]))

isMCQQuestion(answers) ==
    \A i \in 1..Len(answers) : answers[i] \in commonOptions \/ answers[i] = NoAnswer

-----------------------------------------------------------------------------
(* Satisfaction Scorer: the body of calculateSatisfactionPercentage *)

ZeroAcc ==
    [satisfactionScore |-> 0, dissatisfactionScore |-> 0,
     satisfactionQuestions |-> 0, dissatisfactionQuestions |-> 0]

\* StarContribution with the threshold off by one: stars > 3
StarContributionAbove3(a, stars) ==
    IF stars > 3
    THEN [a EXCEPT !.satisfactionScore = @ + (stars * 100) \div 5,
                   !.satisfactionQuestions = @ + 1]
    ELSE [a EXCEPT !.dissatisfactionScore = @ + ((5 - stars) * 100) \div 5,
                   !.dissatisfactionQuestions = @ + 1]

\* if (stars >= 3) {...} else {...}.  (stars / 5) * 100 is computed in doubles;
\* it is the exact integer stars * 20 for every star count of up to two digits
\* the model reads except 11, which no input of the model holds.
StarContribution(a, stars) ==
    IF stars >= 3
    THEN [a EXCEPT !.satisfactionScore = @ + (stars * 100) \div 5,
                   !.satisfactionQuestions = @ + 1]
    ELSE [a EXCEPT !.dissatisfactionScore = @ + ((5 - stars) * 100) \div 5,
                   !.dissatisfactionQuestions = @ + 1]

\* LabelContribution adding the table value itself to the dissatisfaction sum
LabelContributionTableValue(a, answerKey) ==
    IF answerKey \in commonOptions
    THEN IF answerKey \in {VerySatisfied, Satisfied}
         THEN [a EXCEPT !.satisfactionScore = @ + satisfactionLevels(answerKey),
                        !.satisfactionQuestions = @ + 1]
         ELSE IF answerKey \in {Dissatisfied, VeryDissatisfied}
         THEN [a EXCEPT !.dissatisfactionScore = @ + satisfactionLevels(answerKey),
                        !.dissatisfactionQuestions = @ + 1]
         ELSE a
    ELSE a

\* the else branch: answerKey = answer.trim() looked up in satisfactionLevels
LabelContribution(a, answerKey) ==
    IF answerKey \in commonOptions
    THEN IF answerKey \in {VerySatisfied, Satisfied}
         THEN [a EXCEPT !.satisfactionScore = @ + satisfactionLevels(answerKey),
                        !.satisfactionQuestions = @ + 1]
         ELSE IF answerKey \in {Dissatisfied, VeryDissatisfied}
         THEN [a EXCEPT !.dissatisfactionScore = @ + (100 - satisfactionLevels(answerKey)),
                        !.dissatisfactionQuestions = @ + 1]
         ELSE a
    ELSE a

\* one iteration of the inner forEach for a key that starts with 'Answer'
ScoreAnswer(a, question, answer) ==
    IF answer = <<>> \/ question = "" THEN a
    ELSE IF StarMatch(answer) THEN StarContribution(a, StarMatchCount(answer))
    ELSE LabelContribution(a, Trim(answer))

\* MathRound truncating: Math.floor(n / d)
MathFloor(n, d) == n \div d

\* Math.round(n / d) for n >= 0, d > 0
MathRound(n, d) == (2 * n + d) \div (2 * d)

\* the object calculateSatisfactionPercentage returns
SatisfactionMetrics(a) ==
    [satisfaction |->
        IF a.satisfactionQuestions > 0
        THEN MathRound(a.satisfactionScore, a.satisfactionQuestions) ELSE 0,
     dissatisfaction |->
        IF a.dissatisfactionQuestions > 0
        THEN MathRound(a.dissatisfactionScore, a.dissatisfactionQuestions) ELSE 0]

\* the template literal `${n}%`
Percent(n) == <<n, "%">>

-----------------------------------------------------------------------------
(* Aggregator: the body of generateAnalysis *)

\* Increment recording only that the key occurred: responses[key] = 1
MarkSelected(counts, key) ==
    IF key \in DOMAIN counts THEN counts ELSE counts @@ (key :> 1)

\* responses[key] = (responses[key] || 0) + 1
Increment(counts, key) ==
    IF key \in DOMAIN counts
    THEN [counts EXCEPT ![key] = @ + 1]
    ELSE counts @@ (key :> 1)

\* options.forEach(opt => responses[opt] = (responses[opt] || 0) + 1)
RECURSIVE CountOptions(_, _)
CountOptions(counts, options) ==
    IF options = <<>> THEN counts
    ELSE CountOptions(Increment(counts, Head(options)), Tail(options))

\* answer.split(',').map(opt => opt.trim())
Options(answer) == LET parts == Split(answer) IN [i \in 1..Len(parts) |-> Trim(parts[i])]

\* if (!questionAnalysis[qNum]) questionAnalysis[qNum] = {...}
EnsureQuestion(qa, qNum, question, answer) ==
    IF qNum \in DOMAIN qa THEN qa
    ELSE qa @@ (qNum :> [question |-> question,
                         responses |-> <<>>,
                         responseCount |-> 0,
                         type |-> determineQuestionType(answer)])

\* KeepOrDeriveType without the guard: the category is derived from every answer
AlwaysDeriveType(type, answer) ==
    IF isMCQQuestion(<<answer>>) THEN "MCQ" ELSE "Text"

\* the category the third branch leaves: type is assigned only when it is falsy,
\* and the entry always holds one of the four non-empty category names
KeepOrDeriveType(type, answer) ==
    IF type = "" THEN (IF isMCQQuestion(<<answer>>) THEN "MCQ" ELSE "Text") ELSE type

\* one iteration of the inner forEach for a key that starts with 'Question'
AnalyzeAnswer(qa, qNum, question, answer) ==
    LET qa1 == EnsureQuestion(qa, qNum, question, answer)
        q   == qa1[qNum]
        q2  == IF isStarRatingQuestion(question, <<answer>>)
               THEN [q EXCEPT !.type = "StarRating",
                              !.responses = Increment(q.responses, answer)]
               ELSE IF IncludesComma(answer)
               THEN [q EXCEPT !.responses = CountOptions(q.responses, Options(answer)),
                              !.type = "Checkbox"]
               ELSE [q EXCEPT !.responses = Increment(q.responses, answer),
                              !.type = KeepOrDeriveType(q.type, answer)]
    IN  [qa1 EXCEPT ![qNum] = [q2 EXCEPT !.responseCount = @ + 1]]

\* [...new Set(responses.map(r => r['Department']))] : first-appearance order
RECURSIVE Unique(_, _)
Unique(seq, seen) ==
    IF seq = <<>> THEN <<>>
    ELSE IF Head(seq) \in seen THEN Unique(Tail(seq), seen)
    ELSE <<Head(seq)>> \o Unique(Tail(seq), seen \cup {Head(seq)})

Departments(rs) == Unique([i \in 1..Len(rs) |-> rs[i].Department], {})

\* the (row, key) positions the nested forEach loops visit, in order
RECURSIVE PositionsFrom(_, _)
PositionsFrom(rs, r) ==
    IF r > Len(rs) THEN <<>>
    ELSE [k \in 1..Len(rs[r].pairs) |-> <<r, k>>] \o PositionsFrom(rs, r + 1)

Positions(rs) == PositionsFrom(rs, 1)

\* responses.filter(r => r['Department'] === dept), as positions
InDepartment(rs, dept, p) == rs[p[1]].Department = dept

DeptPositions(rs, dept) == SelectSeq(Positions(rs), LAMBDA p : InDepartment(rs, dept, p))

\* DeptResponseCount counting the rows of every department: responses.length
AllResponseCount(rs, dept) == Len(rs)

\* deptResponses.length
DeptResponseCount(rs, dept) == Cardinality({i \in 1..Len(rs) : rs[i].Department = dept})

PairAt(rs, p) == rs[p[1]].pairs[p[2]]

NoPair == [phase |-> "none", dept |-> "", qNum |-> 0, question |-> "", answer |-> <<>>]

NoAnalysis == [overview |-> <<>>, departmentStats |-> <<>>]

-----------------------------------------------------------------------------
(* Renderer: generatePDF and the helpers it calls *)

DigitOf(k) == CHOOSE d \in Digits : DigitValue(d) = k

\* the decimal text of a natural number, as a template literal prints it
RECURSIVE Decimal(_)
Decimal(n) ==
    IF n < 10 THEN <<DigitOf(n)>> ELSE Append(Decimal(n \div 10), DigitOf(n % 10))

\* the text a template literal prints for undefined
UndefinedText == <<"undefined">>

\* the text Number.prototype.toFixed prints for NaN
NaNText == <<"NaN">>

\* (n / d).toFixed(1) for n >= 0 : NaN for 0 / 0, else one decimal, halves upwards
ToFixed1(n, d) ==
    IF d = 0 THEN NaNText
    ELSE LET tenths == (20 * n + d) \div (2 * d)
         IN  Decimal(tenths \div 10) \o <<".", DigitOf(tenths % 10)>>

\* the digits parseInt reads: those that follow the leading white space
ParseIntDigits(s) ==
    LET i == SpacesEnd(s, 1) IN SubSeq(s, i, DigitsEnd(s, i) - 1)

\* isNaN(parseInt(s))
ParseIntIsNaN(s) == ParseIntDigits(s) = <<>>

\* parseInt(s) when it is a number
ParseInt(s) == ParseDigits(ParseIntDigits(s))

\* Object.values(f).reduce((a, b) => a + b, 0)
RECURSIVE SumValues(_)
SumValues(f) ==
    IF DOMAIN f = {} THEN 0
    ELSE LET k == CHOOSE x \in DOMAIN f : TRUE
         IN  f[k] + SumValues([x \in DOMAIN f \ {k} |-> f[x]])

\* LabelCount without the test of the category
LabelCountAnyType(qData, label) ==
    IF label \in DOMAIN qData.responses THEN qData.responses[label] ELSE 0

\* what the entries of one question add to satisfactionCounts[label]
LabelCount(qData, label) ==
    IF qData.type = "MCQ" /\ label \in DOMAIN qData.responses
    THEN qData.responses[label] ELSE 0

aggregateSatisfactionLevels(a) ==
    [label \in commonOptions |->
        SumValues([d \in DOMAIN a.departmentStats |->
            SumValues([q \in DOMAIN a.departmentStats[d].questionAnalysis |->
                LabelCount(a.departmentStats[d].questionAnalysis[q], label)])])]

\* the labels of createSatisfactionPieChart: `${key}: ${value} (${percentage}%)`
PieChartLabels(satisfactionData) ==
    LET total == SumValues(satisfactionData)
    IN  [key \in DOMAIN satisfactionData |->
            [value |-> Decimal(satisfactionData[key]),
             percentage |-> ToFixed1(100 * satisfactionData[key], total)]]

\* const defaultAnalysis = { overview: {...}, departmentStats: {}, ... }
DefaultOverview == [totalResponses |-> 0, departments |-> 0, averageSatisfactionRate |-> 0]

\* analysis = { ...defaultAnalysis, ...analysis, overview: {...} } : a field the
\* argument holds wins over the default
MergeDefaults(a) ==
    [overview |-> (IF "overview" \in DOMAIN a THEN a.overview ELSE <<>>) @@ DefaultOverview,
     departmentStats |-> IF "departmentStats" \in DOMAIN a THEN a.departmentStats ELSE <<>>]

\* `${n}` of a number field of the overview, `${s}` of a percentage field
NumberField(o, f) == IF f \in DOMAIN o THEN Decimal(o[f]) ELSE UndefinedText
PercentField(o, f) == IF f \in DOMAIN o THEN Append(Decimal(o[f][1]), o[f][2]) ELSE UndefinedText

\* the four lines of the Overview section
RenderOverview(o) ==
    [totalResponses |-> NumberField(o, "totalResponses"),
     numberOfDepartments |-> NumberField(o, "numberOfDepartments"),
     averageSatisfaction |-> PercentField(o, "averageSatisfaction"),
     averageDissatisfaction |-> PercentField(o, "averageDissatisfaction")]

\* ((count / qData.responseCount) * 100).toFixed(1)
Percentage(count, responseCount) == ToFixed1(100 * count, responseCount)

\* the lines of an MCQ or Checkbox question, one per entry of qData.responses
OptionLines(qData) ==
    {[option |-> o,
      count |-> Decimal(qData.responses[o]),
      percentage |-> Percentage(qData.responses[o], qData.responseCount)] :
        o \in DOMAIN qData.responses}

\* `${stars} stars`
StarKey(stars) == <<DigitOf(stars), " ", "stars">>

\* qData.responses[`${stars} stars`] || 0
StarCount(rs, stars) == IF StarKey(stars) \in DOMAIN rs THEN rs[StarKey(stars)] ELSE 0

\* the five lines `${stars} star (${count} selections)`
StarLines(qData) == [stars \in 1..5 |-> Decimal(StarCount(qData.responses, stars))]

\* the entries the average is taken over: if (!isNaN(stars))
RatedKeys(rs) == {k \in DOMAIN rs : ~ParseIntIsNaN(k)}

\* averageRating
AverageRating(qData) ==
    LET rs == qData.responses
        totalStars == SumValues([k \in RatedKeys(rs) |-> ParseInt(k) * rs[k]])
        totalResponses == SumValues([k \in RatedKeys(rs) |-> rs[k]])
    IN  IF totalResponses > 0 THEN ToFixed1(totalStars, totalResponses)
        ELSE <<"0", ".", "0">>

\* the block of one question; the lines of a category are a set, since the
\* order of Object.entries is not part of the model
RenderQuestion(qData) ==
    [question |-> qData.question,
     type |-> qData.type,
     textResponses |-> IF qData.type = "Text" THEN DOMAIN qData.responses ELSE {},
     responses |-> IF qData.type = "MCQ" THEN OptionLines(qData) ELSE {},
     selections |-> IF qData.type = "Checkbox" THEN OptionLines(qData) ELSE {},
     stars |-> IF qData.type = "StarRating" THEN StarLines(qData) ELSE <<>>,
     averageRating |-> IF qData.type = "StarRating" THEN AverageRating(qData) ELSE <<>>,
     total |-> Decimal(qData.responseCount)]

\* the Department Statistics section
RenderDepartments(stats) ==
    [d \in DOMAIN stats |->
        [totalResponses |-> Decimal(stats[d].totalResponses),
         questions |-> [q \in DOMAIN stats[d].questionAnalysis |->
                           RenderQuestion(stats[d].questionAnalysis[q])]]]

\* the document generatePDF writes for the aggregate it is given
RenderDocument(given) ==
    LET a == MergeDefaults(given)
        satisfactionData == aggregateSatisfactionLevels(a)
    IN  [overview |-> RenderOverview(a.overview),
         departments |-> RenderDepartments(a.departmentStats),
         satisfactionData |-> satisfactionData,
         chart |-> PieChartLabels(satisfactionData)]

NoDocument == <<>>

-----------------------------------------------------------------------------
(* The CSV files the analysis is run on *)

MaxRows == 2
MaxQuestions == 5

QuestionText == "How satisfied are you?"

InputDepartments == {"HR", "IT"}

InputAnswers ==
    { <<"5", " ", "stars">>,                     \* "5 stars"
      <<"1", " ", "star">>,                      \* "1 star"
      <<"3", "Stars">>,                          \* "3Stars"
      <<"0", " ", "stars">>,                     \* "0 stars"
      <<"7", " ", "stars">>,                     \* "7 stars"
      <<"Gym", ",", " ", "Lunch">>,              \* "Gym, Lunch"
      <<"Lunch">>,                               \* "Lunch"
      <<"Gym", ",", " ", "5", " ", "stars">>,    \* "Gym, 5 stars"
      <<"Satisfied", ",", " ", "Neutral">>,      \* "Satisfied, Neutral"
      Satisfied, Dissatisfied,
      <<" ", "Satisfied", " ">>,                 \* " Satisfied "
      NoAnswer,
      <<"fine">>,                                \* "fine"
      <<"gave", " ", "2", " ", "stars">> }       \* "gave 2 stars"

\* a question column the row's survey does not have: generateCSV leaves both cells empty
AbsentPair == [question |-> "", answer |-> <<>>]

InputPairs == {AbsentPair} \cup {[question |-> QuestionText, answer |-> a] : a \in InputAnswers}

\* the answers a survey row gives its k-th question: the k-th satisfaction label
\* (the five in turn), "<k> stars", "No answer", or none when the survey of the
\* row has no k-th question
SurveyLabels == <<VerySatisfied, Satisfied, Neutral, Dissatisfied, VeryDissatisfied>>

SurveyPairs(k) ==
    {AbsentPair} \cup
    {[question |-> QuestionText, answer |-> a] :
        a \in {SurveyLabels[((k - 1) % Len(SurveyLabels)) + 1],
               <<CHOOSE d \in Digits : DigitValue(d) = k, " ", "stars">>,
               NoAnswer}}

\* up to MaxRows rows of any department with one question column
MixedInputs ==
    UNION {[1..n -> {[Department |-> d, pairs |-> <<p>>] :
                        d \in InputDepartments, p \in InputPairs}] : n \in 0..MaxRows}

\* the sequences of pairs a row of a CSV file with n question columns may hold
RECURSIVE SurveyPairSeqs(_)
SurveyPairSeqs(n) ==
    IF n = 0 THEN {<<>>}
    ELSE {Append(ps, p) : ps \in SurveyPairSeqs(n - 1), p \in SurveyPairs(n)}

\* one row of a CSV file with up to MaxQuestions question columns
SurveyInputs ==
    UNION {{<<[Department |-> "HR", pairs |-> ps]>> : ps \in SurveyPairSeqs(n)} :
              n \in 1..MaxQuestions}

\* a star, a multi-select and a label answer, for files with two question columns
WideAnswers == {<<"5", " ", "stars">>, <<"Gym", ",", " ", "Lunch">>, Satisfied}

\* up to MaxRows rows of any department with two question columns
WideInputs ==
    UNION {[1..n -> {[Department |-> d,
                      pairs |-> <<[question |-> QuestionText, answer |-> a1],
                                  [question |-> QuestionText, answer |-> a2]>>] :
                        d \in InputDepartments, a1 \in WideAnswers, a2 \in WideAnswers}] :
              n \in 1..MaxRows}

\* answers to a choice question: labels, "No answer", free text, option lists
ChoiceAnswers ==
    { Satisfied, NoAnswer,
      <<"fine">>,                                \* "fine"
      <<"Lunch">>,                               \* "Lunch"
      <<"Gym", ",", " ", "Lunch">>,              \* "Gym, Lunch"
      <<"Gym", ",", " ", "5", " ", "stars">>,    \* "Gym, 5 stars"
      <<"5", " ", "stars">> }                    \* "5 stars"

\* up to MaxRows rows of any department with one choice question
ChoiceInputs ==
    UNION {[1..n -> {[Department |-> d,
                      pairs |-> <<[question |-> QuestionText, answer |-> a]>>] :
                        d \in InputDepartments, a \in ChoiceAnswers}] : n \in 0..MaxRows}

\* answers to a rating question: spellings of a star count, and texts that
\* only start with a number
RatingAnswers ==
    { <<"5", " ", "stars">>,                     \* "5 stars"
      <<"1", " ", "star">>,                      \* "1 star"
      <<"1", " ", "stars">>,                     \* "1 stars"
      <<"5", " ", "Stars">>,                     \* "5 Stars"
      <<"5", "stars">>,                          \* "5stars"
      <<"2", " ", "much">>,                      \* "2 much"
      <<"3", " ", "people", ",", " ", "Gym">> }  \* "3 people, Gym"

MaxRatings == 3

\* up to MaxRatings rows of one department with one rating question
RatingInputs ==
    UNION {[1..n -> {[Department |-> "HR",
                      pairs |-> <<[question |-> QuestionText, answer |-> a]>>] :
                        a \in RatingAnswers}] : n \in 1..MaxRatings}

\* the overview generateAnalysis builds when nothing was counted
ZeroOverview ==
    [totalResponses |-> 0, numberOfDepartments |-> 0,
     averageSatisfaction |-> Percent(0), averageDissatisfaction |-> Percent(0)]

\* the aggregates without responses generatePDF may be called with: any of the
\* overview fields, the overview itself and departmentStats may be absent
GivenAggregates ==
    {[f \in fs |-> IF f = "overview" THEN [g \in gs |-> ZeroOverview[g]] ELSE <<>>] :
        fs \in SUBSET {"overview", "departmentStats"}, gs \in SUBSET DOMAIN ZeroOverview}

NoReply == [status |-> 0, error |-> ""]

\* no request in flight, no file written, nothing stored
ServerIdle ==
    /\ files = <<>>
    /\ clock = 0
    /\ reqs = <<>>
    /\ db = [users |-> {}, surveys |-> {}, responses |-> <<>>]

-----------------------------------------------------------------------------
(* Export: generateCSV of server.js.  A Response document is a function whose
   domain holds the fields the document has; the CSV file is taken to carry
   the cell texts generateCSV hands to the json2csv parser. *)

\* the answer cell of a question that is not of type "star":
\* response.answers[`q${index}`] || "No answer"
PlainAnswerCell(answers, i) ==
    IF i \in DOMAIN answers /\ answers[i] # <<>> THEN answers[i] ELSE NoAnswer

\* the answer cell of a question of type "star": `${response.answers[`q${index}`]} stars`
StarAnswerCell(answers, i) ==
    (IF i \in DOMAIN answers THEN answers[i] ELSE UndefinedText) \o <<" ", "stars">>

\* the department cell without the fallback: an absent value is written as an empty cell
DepartmentAsStored(response) ==
    IF "department" \in DOMAIN response THEN response.department ELSE ""

\* response.department || "Unknown Department"
DepartmentCell(response) ==
    IF "department" \in DOMAIN response /\ response.department # ""
    THEN response.department ELSE "Unknown Department"

\* the pairs of Question/Answer cells of one response; the columns its survey
\* has no question for stay empty
PairCells(response, maxQuestions) ==
    [i \in 1..maxQuestions |->
        IF i <= Len(response.questions)
        THEN [question |-> response.questions[i].text,
              answer |-> IF response.questions[i].type = "star"
                         THEN StarAnswerCell(response.answers, i)
                         ELSE PlainAnswerCell(response.answers, i)]
        ELSE AbsentPair]

\* Math.max(...responses.map((r) => r.surveyId?.questions?.length || 0)), which
\* leaves the column list without question columns when there is no response
MaxQuestionCount(rs) ==
    IF rs = <<>> THEN 0
    ELSE CHOOSE m \in {Len(rs[i].questions) : i \in 1..Len(rs)} :
            \A i \in 1..Len(rs) : Len(rs[i].questions) <= m

\* the rows of the file generateCSV writes
FormattedData(rs) ==
    [i \in 1..Len(rs) |->
        [Department |-> DepartmentCell(rs[i]),
         pairs |-> PairCells(rs[i], MaxQuestionCount(rs))]]

MaxStored == 2

\* the questions of the surveys: none (the survey of the response is gone), one
\* choice question, one star question
StoredSurveys ==
    { <<>>,
      <<[text |-> QuestionText, type |-> "mcq"]>>,
      <<[text |-> QuestionText, type |-> "star"]>> }

\* the answers a response may hold for its survey
StoredAnswers(questions) ==
    IF questions = <<>> THEN {<<>>}
    ELSE IF questions[1].type = "star" THEN {<<>>, <<<<"5">>>>}
    ELSE {<<>>, <<Satisfied>>}

\* the Response documents: the department is absent, empty or a name
StoredResponses ==
    UNION {UNION {{[questions |-> q, answers |-> a],
                   [department |-> "", questions |-> q, answers |-> a],
                   [department |-> "HR", questions |-> q, answers |-> a]} :
                     a \in StoredAnswers(q)} : q \in StoredSurveys}

StoredInputs == UNION {[1..n -> StoredResponses] : n \in 0..MaxStored}

-----------------------------------------------------------------------------
(* The analysis run: new ReportGenerator(csvPath), then generateAnalysis() *)

Init ==
    /\ csv \in MixedInputs \cup SurveyInputs \cup WideInputs
    /\ pc = "start"
    /\ responses = <<>>
    /\ acc = ZeroAcc
    /\ di = 0
    /\ si = 0
    /\ prev = NoPair
    /\ questionAnalysis = <<>>
    /\ analysis = NoAnalysis
    /\ error = ""
    /\ doc = NoDocument
    /\ store = <<>>
    /\ http = NoReply
    /\ ServerIdle

\* readCSV resolves with the rows of a file that holds at least one
ReadCSV ==
    /\ pc = "start"
    /\ Len(csv) # 0
    /\ responses' = csv
    /\ pc' = "scoring"
    /\ si' = 1
    /\ UNCHANGED <<server, doc, store, http, csv, acc, di, prev, questionAnalysis, analysis, error>>

\* ReadCSVEmpty resolving with the empty list of rows instead of rejecting
ReadCSVEmptyResolves ==
    /\ pc = "start"
    /\ Len(csv) = 0
    /\ responses' = csv
    /\ pc' = "scoring"
    /\ si' = 1
    /\ UNCHANGED <<server, doc, store, http, csv, acc, di, prev, questionAnalysis, analysis, error>>

\* readCSV rejects on a file without rows, and generateAnalysis rethrows
ReadCSVEmpty ==
    /\ pc = "start"
    /\ Len(csv) = 0
    /\ pc' = "failed"
    /\ error' = "CSV file is empty"
    /\ UNCHANGED <<server, doc, store, http, csv, responses, acc, di, si, prev, questionAnalysis, analysis>>

\* calculateSatisfactionPercentage: one (row, 'Answer N') iteration
ScoreStep ==
    /\ pc = "scoring"
    /\ si <= Len(Positions(responses))
    /\ LET p    == Positions(responses)[si]
           pair == PairAt(responses, p)
       IN  /\ acc' = ScoreAnswer(acc, pair.question, pair.answer)
           /\ prev' = [phase |-> "score", dept |-> responses[p[1]].Department,
                       qNum |-> p[2], question |-> pair.question, answer |-> pair.answer]
    /\ si' = si + 1
    /\ UNCHANGED <<server, doc, store, http, csv, pc, responses, di, questionAnalysis, analysis, error>>

\* calculateSatisfactionPercentage returns; const analysis = { overview, departmentStats: {} }
BuildOverview ==
    /\ pc = "scoring"
    /\ si > Len(Positions(responses))
    /\ analysis' =
         [overview |->
            [totalResponses |-> Len(responses),
             numberOfDepartments |-> Len(Departments(responses)),
             averageSatisfaction |-> Percent(SatisfactionMetrics(acc).satisfaction),
             averageDissatisfaction |-> Percent(SatisfactionMetrics(acc).dissatisfaction)],
          departmentStats |-> <<>>]
    /\ pc' = "analyzing"
    /\ di' = 1
    /\ si' = 1
    /\ prev' = NoPair
    /\ questionAnalysis' = <<>>
    /\ UNCHANGED <<server, doc, store, http, csv, responses, acc, error>>

\* departments.forEach: one (row of the department, 'Question N') iteration
AnalyzeStep ==
    /\ pc = "analyzing"
    /\ di <= Len(Departments(responses))
    /\ LET dept == Departments(responses)[di]
           ps   == DeptPositions(responses, dept)
       IN  /\ si <= Len(ps)
           /\ LET pair == PairAt(responses, ps[si])
              IN  /\ questionAnalysis' =
                        AnalyzeAnswer(questionAnalysis, ps[si][2], pair.question, pair.answer)
                  /\ prev' = [phase |-> "analyze", dept |-> dept, qNum |-> ps[si][2],
                              question |-> pair.question, answer |-> pair.answer]
    /\ si' = si + 1
    /\ UNCHANGED <<server, doc, store, http, csv, pc, responses, acc, di, analysis, error>>

\* analysis.departmentStats[dept] = { totalResponses, questionAnalysis }
FinishDepartment ==
    /\ pc = "analyzing"
    /\ di <= Len(Departments(responses))
    /\ LET dept == Departments(responses)[di]
       IN  /\ si > Len(DeptPositions(responses, dept))
           /\ analysis' =
                [analysis EXCEPT !.departmentStats =
                    (dept :> [totalResponses |-> DeptResponseCount(responses, dept),
                              questionAnalysis |-> questionAnalysis]) @@ @]
    /\ di' = di + 1
    /\ si' = 1
    /\ prev' = NoPair
    /\ questionAnalysis' = <<>>
    /\ UNCHANGED <<server, doc, store, http, csv, pc, responses, acc, error>>

\* return analysis
ReturnAnalysis ==
    /\ pc = "analyzing"
    /\ di > Len(Departments(responses))
    /\ pc' = "done"
    /\ UNCHANGED <<server, doc, store, http, csv, responses, acc, di, si, prev, questionAnalysis, analysis, error>>

Next ==
    \/ ReadCSV
    \/ ReadCSVEmpty
    \/ ScoreStep
    \/ BuildOverview
    \/ AnalyzeStep
    \/ FinishDepartment
    \/ ReturnAnalysis

Spec == Init /\ [][Next]_vars

-----------------------------------------------------------------------------
(* The report: generateAnalysis() followed by generatePDF(analysis), or
   generatePDF called with an aggregate of the caller *)

InitRender ==
    /\ \/ /\ csv \in ChoiceInputs \cup RatingInputs \cup WideInputs
          /\ pc = "start"
          /\ analysis = NoAnalysis
       \/ /\ csv = <<>>
          /\ pc = "given"
          /\ analysis \in GivenAggregates
    /\ responses = <<>>
    /\ acc = ZeroAcc
    /\ di = 0
    /\ si = 0
    /\ prev = NoPair
    /\ questionAnalysis = <<>>
    /\ error = ""
    /\ doc = NoDocument
    /\ store = <<>>
    /\ http = NoReply
    /\ ServerIdle

\* generatePDF(analysis) resolves: the document is written to the report file
GeneratePDF ==
    /\ pc \in {"done", "given"}
    /\ doc' = RenderDocument(analysis)
    /\ pc' = "rendered"
    /\ UNCHANGED <<server, store, http, csv, responses, acc, di, si, prev, questionAnalysis,
                   analysis, error>>

\* generatePDF throws: the reports directory or the file cannot be written, or
\* the chart cannot be drawn
GeneratePDFFails ==
    /\ pc \in {"done", "given"}
    /\ pc' = "failed"
    /\ error' = "Failed to generate PDF"
    /\ UNCHANGED <<server, doc, store, http, csv, responses, acc, di, si, prev, questionAnalysis,
                   analysis>>

NextRender ==
    \/ ReadCSV
    \/ ReadCSVEmpty
    \/ ScoreStep
    \/ BuildOverview
    \/ AnalyzeStep
    \/ FinishDepartment
    \/ ReturnAnalysis
    \/ GeneratePDF
    \/ GeneratePDFFails

SpecRender == InitRender /\ [][NextRender]_vars

-----------------------------------------------------------------------------
(* The request GET /api/responses/analysis of server.js *)

InitRoute ==
    /\ store \in StoredInputs
    /\ csv = <<>>
    /\ pc = "request"
    /\ analysis = NoAnalysis
    /\ responses = <<>>
    /\ acc = ZeroAcc
    /\ di = 0
    /\ si = 0
    /\ prev = NoPair
    /\ questionAnalysis = <<>>
    /\ error = ""
    /\ doc = NoDocument
    /\ http = NoReply
    /\ ServerIdle

\* await generateCSV(csvPath)
GenerateCSV ==
    /\ pc = "request"
    /\ csv' = FormattedData(store)
    /\ pc' = "start"
    /\ UNCHANGED <<server, doc, store, http, responses, acc, di, si, prev, questionAnalysis,
                   analysis, error>>

\* res.download(pdfPath, "survey_analysis.pdf", callback) sends the report
SendReport ==
    /\ pc = "rendered"
    /\ http' = [status |-> 200, error |-> ""]
    /\ pc' = "replied"
    /\ UNCHANGED <<server, doc, store, csv, responses, acc, di, si, prev, questionAnalysis,
                   analysis, error>>

\* the download callback is called with an error
DownloadFails ==
    /\ pc = "rendered"
    /\ http' = [status |-> 500, error |-> "Failed to download analysis"]
    /\ pc' = "replied"
    /\ UNCHANGED <<server, doc, store, csv, responses, acc, di, si, prev, questionAnalysis,
                   analysis, error>>

\* res.status(500).json({ error: "Failed to generate analysis" }) : what the
\* catch block of the handler sends for the error it caught
CatchReply(caught) == [status |-> 500, error |-> "Failed to generate analysis"]

\* catch (error) of the handler
RespondError ==
    /\ pc = "failed"
    /\ http' = CatchReply(error)
    /\ pc' = "replied"
    /\ UNCHANGED <<server, doc, store, csv, responses, acc, di, si, prev, questionAnalysis,
                   analysis, error>>

NextRoute ==
    \/ GenerateCSV
    \/ ReadCSV
    \/ ReadCSVEmpty
    \/ ScoreStep
    \/ BuildOverview
    \/ AnalyzeStep
    \/ FinishDepartment
    \/ ReturnAnalysis
    \/ GeneratePDF
    \/ GeneratePDFFails
    \/ SendReport
    \/ DownloadFails
    \/ RespondError

SpecRoute == InitRoute /\ [][NextRoute]_vars

-----------------------------------------------------------------------------
(* Concurrent handlers of server.js.  Every await of a handler ends a step:
   the steps of the requests in flight interleave, and they share the files
   of the server and the database. *)

\* no analysis run of the single-run specifications is under way
RunIdle ==
    /\ csv = <<>>
    /\ pc = "off"
    /\ responses = <<>>
    /\ acc = ZeroAcc
    /\ di = 0
    /\ si = 0
    /\ prev = NoPair
    /\ questionAnalysis = <<>>
    /\ analysis = NoAnalysis
    /\ error = ""
    /\ doc = NoDocument
    /\ store = <<>>
    /\ http = NoReply

\* the questions of the surveys the database may hold
SurveyQuestions(id) ==
    IF id = "s1" THEN <<[text |-> QuestionText, type |-> "mcq"]>>
    ELSE <<[text |-> QuestionText, type |-> "star"]>>

\* Response.find().populate("surveyId").lean() : the questions of a response
\* whose survey is gone are absent
Populate(d) ==
    [i \in 1..Len(d.responses) |->
        [department |-> d.responses[i].department,
         questions |-> IF d.responses[i].surveyId \in d.surveys
                       THEN SurveyQuestions(d.responses[i].surveyId) ELSE <<>>,
         answers |-> d.responses[i].answers]]

\* path.join(tempDir, `responses_${Date.now()}.csv`)
CsvPath(now) == <<"temp", "responses_">> \o Decimal(now) \o <<".csv">>

\* path.join(path.dirname(this.csvPath), '..', 'reports', 'survey_analysis.pdf')
ReportPath(csvPath) == <<"reports", "survey_analysis.pdf">>

\* the content of a report file while its stream is open, and of no file
Partial == [totalResponses |-> -1, numberOfDepartments |-> -1]
NoContent == [totalResponses |-> -2, numberOfDepartments |-> -2]

\* the content of the report of an analysis of the rows
ReportOf(rows) ==
    [totalResponses |-> Len(rows), numberOfDepartments |-> Len(Departments(rows))]

\* fs.writeFile, createWriteStream : the file is created or replaced
WriteFile(fs, path, content) == [p \in DOMAIN fs \cup {path} |-> IF p = path THEN content ELSE fs[p]]

\* fs.unlink : the file is removed when it exists
Unlink(fs, path) == [p \in DOMAIN fs \ {path} |-> fs[p]]

\* fs.existsSync
Exists(fs, path) == path \in DOMAIN fs

\* the admin user the server creates when it has connected
AdminUser ==
    [id |-> "admin", username |-> <<"admin">>, email |-> "dataanalysis5@kisna.com",
     isEmailVerified |-> TRUE, emailVerificationOTP |-> "null", otpExpired |-> FALSE]

\* the server has connected: the admin user exists, and one survey is stored
InitServer ==
    /\ RunIdle
    /\ files = <<>>
    /\ clock = 0
    /\ reqs = <<>>
    /\ db = [users |-> {AdminUser}, surveys |-> {"s1"}, responses |-> <<>>]

AnalysisRequests == {"A", "B"}

MaxClock == 1

\* the bodies of POST /api/responses
PostedResponses ==
    {[surveyId |-> "s1", department |-> d, answers |-> <<Satisfied>>] :
        d \in InputDepartments}

\* the locals of the handler of GET /api/responses/analysis
NewAnalysis(now) ==
    [pc |-> "find", csvPath |-> CsvPath(now), found |-> <<>>, written |-> <<>>,
     rows |-> <<>>, sent |-> NoContent, reply |-> NoReply, error |-> ""]

Step(r, at, changes) == reqs' = [reqs EXCEPT ![r] = changes @@ (("pc" :> at) @@ @)]

At(r, at) == r \in DOMAIN reqs /\ reqs[r].pc = at

\* the handler is entered: const csvPath = ...
AnalysisStart(r) ==
    /\ r \notin DOMAIN reqs
    /\ reqs' = reqs @@ (r :> NewAnalysis(clock))
    /\ UNCHANGED <<run, files, clock, db>>

\* generateCSV: await Response.find()...
AnalysisFind(r) ==
    /\ At(r, "find")
    /\ Step(r, "write", [found |-> FormattedData(Populate(db))])
    /\ UNCHANGED <<run, files, clock, db>>

\* generateCSV: await fs.promises.writeFile(csvPath, csv)
AnalysisWriteCSV(r) ==
    /\ At(r, "write")
    /\ files' = WriteFile(files, reqs[r].csvPath, reqs[r].found)
    /\ Step(r, "read", [written |-> reqs[r].found])
    /\ UNCHANGED <<run, clock, db>>

\* generateAnalysis: readCSV of this.csvPath, which throws when the file does
\* not exist and rejects when it has no row
AnalysisRead(r) ==
    /\ At(r, "read")
    /\ IF ~Exists(files, reqs[r].csvPath)
       THEN Step(r, "failed", [error |-> "CSV file not found"])
       ELSE IF files[reqs[r].csvPath] = <<>>
       THEN Step(r, "failed", [error |-> "CSV file is empty"])
       ELSE Step(r, "render", [rows |-> files[reqs[r].csvPath]])
    /\ UNCHANGED <<run, files, clock, db>>

\* generatePDF: fs.createWriteStream(outputPath) opens and truncates the report
AnalysisOpenReport(r) ==
    /\ At(r, "render")
    /\ files' = WriteFile(files, ReportPath(reqs[r].csvPath), Partial)
    /\ Step(r, "rendering", <<>>)
    /\ UNCHANGED <<run, clock, db>>

\* generatePDF: the stream finishes; if (!fs.existsSync(pdfPath)) throw
AnalysisFinishReport(r) ==
    /\ At(r, "rendering")
    /\ LET path == ReportPath(reqs[r].csvPath)
       IN  IF Exists(files, path)
           THEN /\ files' = WriteFile(files, path, ReportOf(reqs[r].rows))
                /\ Step(r, "download", <<>>)
           ELSE /\ files' = files
                /\ Step(r, "failed", [error |-> "PDF file was not generated"])
    /\ UNCHANGED <<run, clock, db>>

\* generatePDF throws
AnalysisRenderFails(r) ==
    /\ At(r, "render")
    /\ Step(r, "failed", [error |-> "Failed to generate PDF"])
    /\ UNCHANGED <<run, files, clock, db>>

\* res.download reads the report file and sends it; without the file the
\* callback gets the error
AnalysisDownload(r) ==
    /\ At(r, "download")
    /\ LET path == ReportPath(reqs[r].csvPath)
       IN  IF Exists(files, path)
           THEN Step(r, "unlink report",
                     [sent |-> files[path], reply |-> [status |-> 200, error |-> ""]])
           ELSE Step(r, "ended",
                     [reply |-> [status |-> 500, error |-> "Failed to download analysis"]])
    /\ UNCHANGED <<run, files, clock, db>>

\* the transfer breaks: the callback gets the error and returns before the unlinks
AnalysisDownloadError(r) ==
    /\ At(r, "download")
    /\ Step(r, "ended", [reply |-> [status |-> 500, error |-> "Failed to download analysis"]])
    /\ UNCHANGED <<run, files, clock, db>>

\* fs.unlink(pdfPath, ...)
AnalysisUnlinkReport(r) ==
    /\ At(r, "unlink report")
    /\ files' = Unlink(files, ReportPath(reqs[r].csvPath))
    /\ Step(r, "unlink csv", <<>>)
    /\ UNCHANGED <<run, clock, db>>

\* fs.unlink(csvPath, ...)
AnalysisUnlinkCSV(r) ==
    /\ At(r, "unlink csv")
    /\ files' = Unlink(files, reqs[r].csvPath)
    /\ Step(r, "ended", <<>>)
    /\ UNCHANGED <<run, clock, db>>

\* catch (error) of the handler
AnalysisCatch(r) ==
    /\ At(r, "failed")
    /\ Step(r, "ended", [reply |-> CatchReply(reqs[r].error)])
    /\ UNCHANGED <<run, files, clock, db>>

\* POST /api/responses : new Response(req.body).save()
PostResponse ==
    /\ Len(db.responses) < MaxStored
    /\ \E body \in PostedResponses : db' = [db EXCEPT !.responses = Append(@, body)]
    /\ UNCHANGED <<run, files, clock, reqs>>

\* a millisecond passes
Tick ==
    /\ clock < MaxClock
    /\ clock' = clock + 1
    /\ UNCHANGED <<run, files, reqs, db>>

\* the steps of a request after the handler was entered
AnalysisContinue(r) ==
    \/ AnalysisFind(r)
    \/ AnalysisWriteCSV(r)
    \/ AnalysisRead(r)
    \/ AnalysisOpenReport(r)
    \/ AnalysisFinishReport(r)
    \/ AnalysisRenderFails(r)
    \/ AnalysisDownload(r)
    \/ AnalysisDownloadError(r)
    \/ AnalysisUnlinkReport(r)
    \/ AnalysisUnlinkCSV(r)
    \/ AnalysisCatch(r)

NextAnalyses ==
    \/ \E r \in AnalysisRequests : AnalysisStart(r) \/ AnalysisContinue(r)
    \/ PostResponse
    \/ Tick

SpecAnalyses == InitServer /\ [][NextAnalyses]_vars

\* the event loop runs every continuation that is ready: a request that was
\* accepted is not left waiting forever
SpecAnalysesFair ==
    SpecAnalyses /\ \A r \in AnalysisRequests : WF_vars(AnalysisContinue(r))

-----------------------------------------------------------------------------
(* POST /api/signup and POST /api/verify-email.  A username is the sequence of
   its pieces, so that toLowerCase and includes are computed. *)

OTPs == { "100000", "999999" }

\* String.prototype.toLowerCase
ToLowerCase(name) ==
    [i \in 1..Len(name) |-> IF name[i] \in {"Admin", "ADMIN"} THEN "admin" ELSE name[i]]

\* username.toLowerCase() === "admin" || username.toLowerCase().includes("admin")
IsAdminName(name) ==
    \/ ToLowerCase(name) = <<"admin">>
    \/ \E i \in 1..Len(name) : ToLowerCase(name)[i] = "admin"

\* sendVerificationEmail(email, otp) of utils/emailService.js: the mail is
\* accepted by the transport, or the promise rejects
sendVerificationEmail(email, otp) == {"sent", "Failed to send verification email"}

SignupRequests == {"first", "second"}

\* the bodies of POST /api/signup
SignupBodies ==
    [username : { <<"ann">>, <<"bob">>, <<"Admin">>, <<"sys", "ADMIN", "1">> },
     email : { "ann@kisna.com", "bob@kisna.com", "dataanalysis5@kisna.com" }]

Reply(status, message) == [status |-> status, error |-> message]

\* the locals of the handler of POST /api/signup
NewSignup(body) ==
    [pc |-> "find", body |-> body, otp |-> "null", reply |-> NoReply,
     earlier |-> {r \in DOMAIN reqs : reqs[r].pc = "ended"}]

\* the handler is entered: the username is refused, or User.findOne is awaited
SignupStart(r) ==
    /\ r \notin DOMAIN reqs
    /\ \E body \in SignupBodies :
          reqs' = reqs @@ (r :>
              IF IsAdminName(body.username)
              THEN [NewSignup(body) EXCEPT
                        !.pc = "ended", !.reply = Reply(400, "Invalid username")]
              ELSE NewSignup(body))
    /\ UNCHANGED <<run, files, clock, db>>

\* const existingEmail = await User.findOne({ email })
SignupFindEmail(r) ==
    /\ At(r, "find")
    /\ IF \E u \in db.users : u.email = reqs[r].body.email
       THEN Step(r, "ended", [reply |-> Reply(400, "Email already registered")])
       ELSE Step(r, "hash", <<>>)
    /\ UNCHANGED <<run, files, clock, db>>

\* await bcrypt.hash(password, 10); const otp = generateOTP()
SignupHash(r) ==
    /\ At(r, "hash")
    /\ \E otp \in OTPs : Step(r, "save", [otp |-> otp])
    /\ UNCHANGED <<run, files, clock, db>>

\* new User({ username, ..., email, emailVerificationOTP: otp, otpExpires,
\* isEmailVerified: false }); await user.save(), which throws on a duplicate
\* key of the unique indexes on username and on email
SignupSave(r) ==
    /\ At(r, "save")
    /\ IF \E u \in db.users : u.username = reqs[r].body.username \/ u.email = reqs[r].body.email
       THEN /\ db' = db
            /\ Step(r, "ended", [reply |-> Reply(400, "E11000 duplicate key error")])
       ELSE /\ db' = [db EXCEPT !.users = @ \cup
                        {[id |-> r, username |-> reqs[r].body.username,
                          email |-> reqs[r].body.email, isEmailVerified |-> FALSE,
                          emailVerificationOTP |-> reqs[r].otp, otpExpired |-> FALSE]}]
            /\ Step(r, "send", <<>>)
    /\ UNCHANGED <<run, files, clock>>

\* await sendVerificationEmail(email, otp); res.json({ success: true }) or the catch
SignupSend(r) ==
    /\ At(r, "send")
    /\ \E outcome \in sendVerificationEmail(reqs[r].body.email, reqs[r].otp) :
          IF outcome = "sent"
          THEN Step(r, "ended", [reply |-> Reply(200, "")])
          ELSE Step(r, "ended", [reply |-> Reply(400, outcome)])
    /\ UNCHANGED <<run, files, clock, db>>

\* POST /api/verify-email with an email and an OTP that match a user whose OTP
\* has not expired
VerifyEmail ==
    /\ \E u \in db.users, otp \in OTPs :
          /\ u.emailVerificationOTP = otp
          /\ ~u.otpExpired
          /\ db' = [db EXCEPT !.users = (@ \ {u}) \cup
                        {[u EXCEPT !.isEmailVerified = TRUE, !.emailVerificationOTP = "null"]}]
    /\ UNCHANGED <<run, files, clock, reqs>>

\* the ten minutes of an OTP pass
OtpExpires ==
    /\ \E u \in db.users :
          /\ u.emailVerificationOTP # "null"
          /\ ~u.otpExpired
          /\ db' = [db EXCEPT !.users = (@ \ {u}) \cup {[u EXCEPT !.otpExpired = TRUE]}]
    /\ UNCHANGED <<run, files, clock, reqs>>

NextSignup ==
    \/ \E r \in SignupRequests :
          \/ SignupStart(r)
          \/ SignupFindEmail(r)
          \/ SignupHash(r)
          \/ SignupSave(r)
          \/ SignupSend(r)
    \/ VerifyEmail
    \/ OtpExpires

SpecSignup == InitServer /\ [][NextSignup]_vars

-----------------------------------------------------------------------------
(* DELETE /api/surveys/:id against POST /api/responses *)

DeleteRequests == {"first", "second"}

\* const deletedSurvey = await Survey.findByIdAndDelete(surveyId), and the 404
\* when there is no such survey
DeleteSurveyFind(r) ==
    /\ r \notin DOMAIN reqs
    /\ \E surveyId \in {"s1", "s2"} :
          IF surveyId \in db.surveys
          THEN /\ db' = [db EXCEPT !.surveys = @ \ {surveyId}]
               /\ reqs' = reqs @@ (r :> [pc |-> "deleteMany", surveyId |-> surveyId,
                                         reply |-> NoReply])
          ELSE /\ db' = db
               /\ reqs' = reqs @@ (r :> [pc |-> "ended", surveyId |-> surveyId,
                                         reply |-> Reply(404, "Survey not found")])
    /\ UNCHANGED <<run, files, clock>>

\* await Response.deleteMany({ surveyId }) : the database removes the responses
DeleteSurveyResponses(r) ==
    /\ At(r, "deleteMany")
    /\ db' = [db EXCEPT !.responses =
                 SelectSeq(@, LAMBDA response : response.surveyId # reqs[r].surveyId)]
    /\ Step(r, "answer", <<>>)
    /\ UNCHANGED <<run, files, clock>>

\* res.json({ success: true, ... })
DeleteSurveyAnswer(r) ==
    /\ At(r, "answer")
    /\ Step(r, "ended", [reply |-> Reply(200, "")])
    /\ UNCHANGED <<run, files, clock, db>>

NextSurveys ==
    \/ \E r \in DeleteRequests :
          \/ DeleteSurveyFind(r)
          \/ DeleteSurveyResponses(r)
          \/ DeleteSurveyAnswer(r)
    \/ PostResponse

SpecSurveys == InitServer /\ [][NextSurveys]_vars

-----------------------------------------------------------------------------
(* Vocabulary of the properties *)

\* a step of the scoring loop, resp. of the per-department loop, was taken
ScoreStepTaken == pc = "scoring" /\ pc' = "scoring" /\ si' = si + 1
AnalyzeStepTaken == pc = "analyzing" /\ pc' = "analyzing" /\ si' = si + 1

\* the texts "<N> star" and "<N> stars", in any letter case, with optional blanks
StarFormTexts(n) ==
    {<<d>> \o ws \o <<w>> :
        d \in {x \in Digits : DigitValue(x) = n},
        ws \in {<<>>, <<" ">>, <<" ", " ">>},
        w \in StarExactWords}

RECURSIVE SumCounts(_)
SumCounts(f) ==
    IF DOMAIN f = {} THEN 0
    ELSE LET k == CHOOSE x \in DOMAIN f : TRUE
         IN  f[k] + SumCounts([x \in DOMAIN f \ {k} |-> f[x]])

\* the (question, answer) pairs of question q the rows of dept hold, in processing order
PairsOf(dept, q) ==
    LET ps == SelectSeq(DeptPositions(responses, dept), LAMBDA p : p[2] = q)
    IN  [i \in 1..Len(ps) |-> PairAt(responses, ps[i])]

\* the category generateAnalysis records for a question whose only answer is this one
SoleCategory(question, answer) == AnalyzeAnswer(<<>>, 1, question, answer)[1].type

\* r is n / d rounded to the nearest integer, halves upwards; 0 when d = 0
IsHalfUpMean(r, n, d) ==
    IF d = 0 THEN r = 0
    ELSE (2 * r - 1) * d <= 2 * n /\ 2 * n < (2 * r + 1) * d

FiveLabelsRow ==
    <<[Department |-> "HR",
       pairs |-> [i \in 1..5 |->
                    [question |-> QuestionText, answer |-> SurveyLabels[i]]]]>>

-----------------------------------------------------------------------------
(* C1 .. C10 *)

\* C1: every answer text that contains a comma is classified Checkbox, by
\* determineQuestionType and by the category generateAnalysis records right
\* after processing the answer, whatever its comma-separated parts are.
C1_CommaIsCheckbox ==
    (pc = "analyzing" /\ prev.phase = "analyze" /\ IncludesComma(prev.answer))
        => /\ questionAnalysis[prev.qNum].type = "Checkbox"
           /\ determineQuestionType(prev.answer) = "Checkbox"

\* C2: a question whose first answer has no comma, does not match the star
\* pattern and, trimmed, is one of the five labels or "No answer" is MCQ.
C2_LabelFirstAnswerIsMCQ ==
    (/\ pc = "analyzing" /\ prev.phase = "analyze"
     /\ questionAnalysis[prev.qNum].responseCount = 1
     /\ ~IncludesComma(prev.answer)
     /\ ~StarMatch(prev.answer)
     /\ Trim(prev.answer) \in commonOptions \cup {NoAnswer})
        => questionAnalysis[prev.qNum].type = "MCQ"

\* C3: an answer "<N> star(s)" with N in 1..5 is classified StarRating, and is
\* scored: N >= 3 adds (N/5)*100 to the satisfaction sum and 1 to its count,
\* N < 3 adds ((5-N)/5)*100 to the dissatisfaction sum and 1 to its count, and
\* nothing else changes.
C3_StarRatingScored ==
    [][\A n \in 1..5 :
          prev'.answer \in StarFormTexts(n) =>
            /\ ScoreStepTaken =>
                 acc' = IF n >= 3
                        THEN [acc EXCEPT !.satisfactionScore = @ + 20 * n,
                                         !.satisfactionQuestions = @ + 1]
                        ELSE [acc EXCEPT !.dissatisfactionScore = @ + 20 * (5 - n),
                                         !.dissatisfactionQuestions = @ + 1]
            /\ AnalyzeStepTaken =>
                 /\ questionAnalysis'[prev'.qNum].type = "StarRating"
                 /\ determineQuestionType(prev'.answer) = "StarRating"]_vars

\* C3 witness: the scoring loop has just scored "5 stars" as 100 satisfaction
C3_Witness ==
    /\ pc = "scoring" /\ prev.phase = "score"
    /\ prev.answer \in StarFormTexts(5)
    /\ acc.satisfactionScore = 100 /\ acc.satisfactionQuestions = 1

\* C4: a star answer whose count is outside 1..5 changes none of the four
\* accumulators, and both overview percentages lie in 0..100.
C4_OutOfRangeStarsIgnored ==
    /\ (pc = "scoring" /\ si = 2 /\ prev.phase = "score"
        /\ \E n \in {0, 6, 7, 8, 9} : prev.answer \in StarFormTexts(n))
          => acc = ZeroAcc
    /\ pc \in {"analyzing", "done"}
          => \E s, d \in 0..100 :
                /\ analysis.overview.averageSatisfaction = Percent(s)
                /\ analysis.overview.averageDissatisfaction = Percent(d)

\* C5: for a non-star answer whose trimmed text is a label, "Very Satisfied"
\* adds 100 and "Satisfied" 75 to satisfaction only, "Dissatisfied" adds 75 and
\* "Very Dissatisfied" 100 to dissatisfaction only; "Neutral" and "No answer"
\* change none of the four accumulators.
C5_LabelScored ==
    [][(ScoreStepTaken /\ ~StarMatch(prev'.answer)) =>
          LET key == Trim(prev'.answer)
          IN  /\ key = VerySatisfied =>
                   acc' = [acc EXCEPT !.satisfactionScore = @ + 100,
                                      !.satisfactionQuestions = @ + 1]
              /\ key = Satisfied =>
                   acc' = [acc EXCEPT !.satisfactionScore = @ + 75,
                                      !.satisfactionQuestions = @ + 1]
              /\ key = Dissatisfied =>
                   acc' = [acc EXCEPT !.dissatisfactionScore = @ + 75,
                                      !.dissatisfactionQuestions = @ + 1]
              /\ key = VeryDissatisfied =>
                   acc' = [acc EXCEPT !.dissatisfactionScore = @ + 100,
                                      !.dissatisfactionQuestions = @ + 1]
              /\ key \in {Neutral, NoAnswer} => acc' = acc]_vars

\* C5 witness: "Dissatisfied" was scored as 75 dissatisfaction after another answer
C5_Witness ==
    /\ pc = "scoring" /\ prev.phase = "score" /\ si = 3
    /\ prev.answer = Dissatisfied
    /\ acc.dissatisfactionScore = 75 /\ acc.dissatisfactionQuestions = 1
    /\ acc.satisfactionQuestions = 1

\* the category section 4.1 of the specification gives an answer text: the
\* whole-text star pattern, then the comma, then the trimmed label or "No answer"
SpecCategory(answer) ==
    IF StarPatternTest(Trim(answer)) THEN "StarRating"
    ELSE IF IncludesComma(answer) THEN "Checkbox"
    ELSE IF Trim(answer) \in commonOptions \cup {NoAnswer} THEN "MCQ"
    ELSE "Text"

\* C6: an answer classified Checkbox or Text never changes the satisfaction or
\* dissatisfaction sums or counts, and is still counted in the question's
\* answer-distribution map.
C6_CheckboxTextNotScored ==
    [][/\ (ScoreStepTaken /\ SpecCategory(prev'.answer) \in {"Checkbox", "Text"})
            => acc' = acc
       /\ (AnalyzeStepTaken /\ SpecCategory(prev'.answer) \in {"Checkbox", "Text"})
            => /\ questionAnalysis'[prev'.qNum].responseCount =
                    (IF prev'.qNum \in DOMAIN questionAnalysis
                     THEN questionAnalysis[prev'.qNum].responseCount ELSE 0) + 1
               /\ SumCounts(questionAnalysis'[prev'.qNum].responses) >
                    (IF prev'.qNum \in DOMAIN questionAnalysis
                     THEN SumCounts(questionAnalysis[prev'.qNum].responses) ELSE 0)]_vars

\* C7: the overview satisfaction percentage is the mean of the satisfaction
\* contributions rounded half-up, 0 when there are none; the dissatisfaction
\* percentage is the same over its own contributions and its own denominator
\* (one answer each of the five labels gives 88 and 88).
C7_RoundedMeans ==
    pc \in {"analyzing", "done"} =>
        /\ \E r \in 0..200 :
              /\ analysis.overview.averageSatisfaction = Percent(r)
              /\ IsHalfUpMean(r, acc.satisfactionScore, acc.satisfactionQuestions)
        /\ \E r \in 0..200 :
              /\ analysis.overview.averageDissatisfaction = Percent(r)
              /\ IsHalfUpMean(r, acc.dissatisfactionScore, acc.dissatisfactionQuestions)
        /\ csv = FiveLabelsRow =>
              /\ analysis.overview.averageSatisfaction = Percent(88)
              /\ analysis.overview.averageDissatisfaction = Percent(88)

\* C7 witness: the five labels, one answer each, were analysed as 88% and 88%
C7_Witness ==
    /\ pc = "done" /\ csv = FiveLabelsRow
    /\ acc.satisfactionScore = 175 /\ acc.satisfactionQuestions = 2
    /\ acc.dissatisfactionScore = 175 /\ acc.dissatisfactionQuestions = 2
    /\ analysis.overview.averageSatisfaction = Percent(88)
    /\ analysis.overview.averageDissatisfaction = Percent(88)

\* C8: for a non-empty row sequence the departments' totalResponses sum to
\* overview.totalResponses, every row is counted in exactly one department,
\* and overview.numberOfDepartments is the number of departmentStats entries.
C8_DepartmentTotals ==
    pc = "done" =>
        LET stats == analysis.departmentStats
        IN  /\ SumCounts([d \in DOMAIN stats |-> stats[d].totalResponses])
                  = analysis.overview.totalResponses
            /\ analysis.overview.totalResponses = Len(csv)
            /\ analysis.overview.numberOfDepartments = Cardinality(DOMAIN stats)
            /\ \A i \in 1..Len(csv) : csv[i].Department \in DOMAIN stats
            /\ \A d \in DOMAIN stats :
                  stats[d].totalResponses =
                      Cardinality({i \in 1..Len(csv) : csv[i].Department = d})

\* C8 witness: two rows of two departments were analysed
C8_Witness ==
    /\ pc = "done"
    /\ Len(csv) = 2
    /\ DOMAIN analysis.departmentStats = {"HR", "IT"}
    /\ analysis.departmentStats["HR"].totalResponses = 1

\* C9: after generateAnalysis every question whose final category is MCQ or
\* StarRating has the sum of its per-answer counts equal to its responseCount.
C9_CountsSumToResponseCount ==
    pc = "done" =>
        \A d \in DOMAIN analysis.departmentStats :
            LET qa == analysis.departmentStats[d].questionAnalysis
            IN  \A q \in DOMAIN qa :
                    qa[q].type \in {"MCQ", "StarRating"}
                        => SumCounts(qa[q].responses) = qa[q].responseCount

\* C10 as stated: after generateAnalysis the category of a question in a
\* department is the classification of the last answer processed for it.
C10_LastAnswerDecides ==
    pc = "done" =>
        \A d \in DOMAIN analysis.departmentStats :
            LET qa == analysis.departmentStats[d].questionAnalysis
            IN  \A q \in DOMAIN qa :
                    LET ps == PairsOf(d, q)
                    IN  qa[q].type = SoleCategory(ps[Len(ps)].question, ps[Len(ps)].answer)

\* the answers that overwrite the category: those matching the whole-text star
\* pattern (after trimming) and those containing a comma
Overwrites(pair) ==
    isStarRatingQuestion(pair.question, <<pair.answer>>) \/ IncludesComma(pair.answer)

\* C10 amended: the category of a question is the one recorded for the last
\* answer that matches the star pattern or contains a comma (StarRating, resp.
\* Checkbox); when the question has no such answer it is the category
\* determineQuestionType gives its first answer. Other answers never change it.
C10_LastOverwritingAnswerDecides ==
    pc = "done" =>
        \A d \in DOMAIN analysis.departmentStats :
            LET qa == analysis.departmentStats[d].questionAnalysis
            IN  \A q \in DOMAIN qa :
                    LET ps   == PairsOf(d, q)
                        over == {i \in 1..Len(ps) : Overwrites(ps[i])}
                    IN  IF over = {}
                        THEN qa[q].type = determineQuestionType(ps[1].answer)
                        ELSE LET last == CHOOSE i \in over : \A j \in over : j <= i
                             IN  qa[q].type =
                                    IF IncludesComma(ps[last].answer)
                                       /\ ~isStarRatingQuestion(ps[last].question,
                                                                <<ps[last].answer>>)
                                    THEN "Checkbox" ELSE "StarRating"

\* C10 witness: a question first answered "5 stars" and last answered "fine"
\* ended as StarRating
C10_Witness ==
    /\ pc = "done"
    /\ Len(csv) = 2
    /\ csv[1].Department = csv[2].Department
    /\ csv[1].pairs[1].answer = <<"5", " ", "stars">>
    /\ csv[2].pairs[1].answer = <<"fine">>
    /\ analysis.departmentStats[csv[1].Department].questionAnalysis[1].type = "StarRating"

-----------------------------------------------------------------------------
(* C11 .. C20 *)

\* the (department, question number) pairs of the aggregate
QuestionsOf(a) ==
    UNION {{<<d, q>> : q \in DOMAIN a.departmentStats[d].questionAnalysis} :
              d \in DOMAIN a.departmentStats}

QuestionData(a, dq) == a.departmentStats[dq[1]].questionAnalysis[dq[2]]

\* the questions whose final category is MCQ
MCQQuestions == {dq \in QuestionsOf(analysis) : QuestionData(analysis, dq).type = "MCQ"}

\* the count a question holds for a key, 0 when it holds none
CountOf(qData, key) == IF key \in DOMAIN qData.responses THEN qData.responses[key] ELSE 0

\* the (row, column) positions of the file
AllPositions == {Positions(responses)[i] : i \in 1..Len(Positions(responses))}

\* the question a position belongs to
QuestionAt(p) == <<responses[p[1]].Department, p[2]>>

\* the analysis of a file has been rendered
RunRendered == pc = "rendered" /\ responses # <<>>

\* C11: for each of the five labels, the satisfaction tally is the sum, over
\* the questions of all departments whose final category is MCQ, of the
\* question's count for the label, which is the number of answers of those
\* questions that are the label: other categories and other answers add nothing.
C11_TallySumsMCQLabelCounts ==
    RunRendered =>
        /\ DOMAIN doc.satisfactionData = commonOptions
        /\ \A label \in commonOptions :
              /\ doc.satisfactionData[label] =
                    SumCounts([dq \in MCQQuestions |->
                                  CountOf(QuestionData(analysis, dq), label)])
              /\ doc.satisfactionData[label] =
                    Cardinality({p \in AllPositions :
                                    /\ PairAt(responses, p).answer = label
                                    /\ QuestionAt(p) \in MCQQuestions})

\* a tally of 2 for a label that a question of another category holds as well
C11_Witness ==
    /\ RunRendered
    /\ doc.satisfactionData[Satisfied] = 2
    /\ \E dq \in QuestionsOf(analysis) \ MCQQuestions :
          CountOf(QuestionData(analysis, dq), Satisfied) > 0

\* the positions of the file that belong to the same question as p
SameQuestion(p) == {r \in AllPositions : QuestionAt(r) = QuestionAt(p)}

\* every answer to the question of p is one of the five labels or "No answer"
LabelsOnly(p) ==
    \A r \in SameQuestion(p) : PairAt(responses, r).answer \in commonOptions \cup {NoAnswer}

\* C12: when every answer to a question in a department is one of the five
\* labels or "No answer", every label answer of the question is counted in the
\* satisfaction tally, whatever the order of the rows.
C12_LabelOnlyQuestionTallied ==
    RunRendered =>
        \A label \in commonOptions :
            doc.satisfactionData[label] >=
                Cardinality({p \in AllPositions :
                                LabelsOnly(p) /\ PairAt(responses, p).answer = label})

\* the analysis of the request has been returned by generateAnalysis
Analysed == pc \in {"done", "rendered", "replied"} /\ analysis # NoAnalysis

\* the stored responses whose department is missing or empty
Departmentless == {i \in 1..Len(store) : DepartmentAsStored(store[i]) = ""}

Answered(dq) ==
    {p \in AllPositions : QuestionAt(p) = dq /\ PairAt(responses, p).answer # <<>>}

\* the question columns of the file, per department
ColumnsOf(a) ==
    {<<d, p[2]>> : d \in DOMAIN a.departmentStats, p \in AllPositions}

\* C14: a row that has a "Question N" field but no "Answer N" value is skipped
\* for that index only: the run does not abort, the other indexes and rows are
\* counted, and responseCount of question N is not incremented for the row.
C14_MissingAnswerSkipped ==
    (pc \in {"done", "rendered"} /\ responses # <<>>) =>
        \A dq \in ColumnsOf(analysis) :
            LET qa == analysis.departmentStats[dq[1]].questionAnalysis
            IN  IF dq[2] \in DOMAIN qa
                THEN qa[dq[2]].responseCount = Cardinality(Answered(dq))
                ELSE Answered(dq) = {}

\* the aggregate of the claim: nothing counted anywhere
ZeroAggregate == [overview |-> ZeroOverview, departmentStats |-> <<>>]

\* C15 as stated: the analysis of a file with a header and no data rows does
\* not fail, and returns the aggregate with 0 responses, 0 departments, 0
\* satisfaction and dissatisfaction, no department and an all-zero tally.
C15_EmptyInputZeroAggregate ==
    /\ error # "CSV file is empty"
    /\ (pc = "done" /\ csv = <<>>) =>
          /\ analysis = ZeroAggregate
          /\ \A label \in commonOptions : aggregateSatisfactionLevels(analysis)[label] = 0

\* C15, amended: the analysis of a file with a header and no data rows fails
\* with the error "CSV file is empty" as soon as the file is read; no aggregate
\* is built and nothing is rendered.
C15_EmptyInputRejected ==
    [][(pc = "start" /\ csv = <<>>) =>
          /\ pc' = "failed"
          /\ error' = "CSV file is empty"
          /\ analysis' = NoAnalysis
          /\ doc' = NoDocument]_vars

\* the analysis of an empty file has failed
C15_Witness ==
    /\ csv = <<>>
    /\ pc = "failed"
    /\ error = "CSV file is empty"
    /\ analysis = NoAnalysis

\* the two kinds of failure of the request: nothing to analyse, report not written
InputFailure == "CSV file is empty"
RenderFailure == "Failed to generate PDF"

\* C16: the caller of GET /api/responses/analysis can always tell the two kinds
\* of failure apart: the reply to a request that failed for one kind is not the
\* reply the route sends for the other kind.
C16_FailureKindsDistinguished ==
    pc = "replied" =>
        /\ error = InputFailure => http # CatchReply(RenderFailure)
        /\ error = RenderFailure => http # CatchReply(InputFailure)

\* the questions whose final category is Checkbox
CheckboxQuestions ==
    {dq \in QuestionsOf(analysis) : QuestionData(analysis, dq).type = "Checkbox"}

\* how often an answer selects an option: once per occurrence among the trimmed
\* parts of a comma-separated answer, once when the answer is the option
Selections(answer, option) ==
    IF IncludesComma(answer)
    THEN Cardinality({i \in 1..Len(Split(answer)) : Trim(Split(answer)[i]) = option})
    ELSE IF answer = option THEN 1 ELSE 0

\* the options the answers of question dq select
SelectedOptions(dq) ==
    UNION {IF IncludesComma(PairAt(responses, p).answer)
           THEN {Trim(Split(PairAt(responses, p).answer)[i]) :
                    i \in 1..Len(Split(PairAt(responses, p).answer))}
           ELSE {PairAt(responses, p).answer} :
              p \in {r \in AllPositions : QuestionAt(r) = dq}}

\* how often the answers at the positions ps select the option
RECURSIVE SelectionCount(_, _)
SelectionCount(ps, option) ==
    IF ps = {} THEN 0
    ELSE LET p == CHOOSE x \in ps : TRUE
         IN  Selections(PairAt(responses, p).answer, option)
                + SelectionCount(ps \ {p}, option)

\* the number of tenths a text "<digits>.<digit>" stands for
TenthsOf(text) ==
    10 * ParseDigits(SubSeq(text, 1, Len(text) - 2)) + DigitValue(text[Len(text)])

\* t tenths is 100 * n / d rounded to one decimal
IsPercentTenths(t, n, d) == (2 * t - 1) * d <= 2000 * n /\ 2000 * n <= (2 * t + 1) * d

\* the rendered block of a question
Block(dq) == doc.departments[dq[1]].questions[dq[2]]

\* C17: for a Checkbox question every option is counted once per occurrence in
\* the comma-separated answers (trimmed) and once per single-option answer,
\* and the rendered percentage of an option is its count over responseCount,
\* whatever the order of the answers; "Gym, Lunch" and "Lunch" make a Checkbox
\* question in either order.
C17_CheckboxCounts ==
    RunRendered =>
      /\ \A dq \in QuestionsOf(analysis) :
            (/\ Len(PairsOf(dq[1], dq[2])) = 2
             /\ {PairsOf(dq[1], dq[2])[i].answer : i \in 1..2} =
                    {<<"Lunch">>, <<"Gym", ",", " ", "Lunch">>})
                => dq \in CheckboxQuestions
      /\ \A dq \in CheckboxQuestions :
            LET qData == QuestionData(analysis, dq)
            IN  /\ DOMAIN qData.responses = SelectedOptions(dq)
                /\ \A o \in SelectedOptions(dq) :
                      /\ qData.responses[o] =
                            SelectionCount({r \in AllPositions : QuestionAt(r) = dq}, o)
                      /\ \E line \in Block(dq).selections :
                            /\ line.option = o
                            /\ line.count = Decimal(qData.responses[o])
                            /\ IsPercentTenths(TenthsOf(line.percentage),
                                               qData.responses[o], qData.responseCount)

\* "Lunch" answered before "Gym, Lunch": Gym 1 (50.0%), Lunch 2 (100.0%) of 2
C17_Witness ==
    /\ RunRendered
    /\ \E dq \in CheckboxQuestions :
          /\ PairsOf(dq[1], dq[2]) =
                <<[question |-> QuestionText, answer |-> <<"Lunch">>],
                  [question |-> QuestionText, answer |-> <<"Gym", ",", " ", "Lunch">>]>>
          /\ Block(dq).total = <<"2">>
          /\ Block(dq).selections =
                {[option |-> <<"Gym">>, count |-> <<"1">>,
                  percentage |-> <<"5", "0", ".", "0">>],
                 [option |-> <<"Lunch">>, count |-> <<"2">>,
                  percentage |-> <<"1", "0", "0", ".", "0">>]}

\* the questions whose final category is StarRating
StarRatingQuestions ==
    {dq \in QuestionsOf(analysis) : QuestionData(analysis, dq).type = "StarRating"}

\* the positions of question dq whose answer is a spelling of n stars
StarAnswers(dq, n) ==
    {p \in AllPositions : QuestionAt(p) = dq /\ PairAt(responses, p).answer \in StarFormTexts(n)}

\* C18: for a StarRating question the renderer lists, for N = 5 down to 1, the
\* number of answers whose star count is N (0 when there is none), in every
\* accepted spelling, so that the five counts add up to the number of answers
\* with 1 to 5 stars.
C18_StarListing ==
    RunRendered =>
        \A dq \in StarRatingQuestions :
            /\ DOMAIN Block(dq).stars = 1..5
            /\ \A n \in 1..5 :
                  Block(dq).stars[n] = Decimal(Cardinality(StarAnswers(dq, n)))
            /\ SumCounts([n \in 1..5 |-> ParseDigits(Block(dq).stars[n])]) =
                  Cardinality(UNION {StarAnswers(dq, n) : n \in 1..5})

\* the keys of a question that are a spelling of n stars
StarKeys(qData, n) == {k \in DOMAIN qData.responses : k \in StarFormTexts(n)}

\* the answers counted under the star spellings, and their stars
RatedCount(qData) ==
    SumCounts([n \in 0..9 |-> SumCounts([k \in StarKeys(qData, n) |-> qData.responses[k]])])

RatedStars(qData) ==
    SumCounts([n \in 0..9 |->
                  n * SumCounts([k \in StarKeys(qData, n) |-> qData.responses[k]])])

\* t tenths is n / d rounded to one decimal
IsMeanTenths(t, n, d) == (2 * t - 1) * d <= 20 * n /\ 20 * n <= (2 * t + 1) * d

\* C19: the mean star rating rendered for a StarRating question is the sum of
\* stars * count over the sum of count, taken over the distinct answers that
\* match the star pattern only, rounded to one decimal; other answers ("2 much",
\* an option "3 people") do not enter it.
C19_MeanOverStarAnswers ==
    RunRendered =>
        \A dq \in StarRatingQuestions :
            LET qData == QuestionData(analysis, dq)
            IN  IF RatedCount(qData) = 0
                THEN Block(dq).averageRating = <<"0", ".", "0">>
                ELSE IsMeanTenths(TenthsOf(Block(dq).averageRating),
                                  RatedStars(qData), RatedCount(qData))

\* generatePDF has rendered an aggregate without responses it was called with
GivenRendered == pc = "rendered" /\ responses = <<>>

\* C20: for an aggregate with zero responses whose overview fields are absent,
\* generatePDF renders 0 for the four overview fields, none of them as
\* "undefined", and the tally percentages of the final page are defined.
C20_ZeroAggregateRendered ==
    GivenRendered =>
        /\ doc.overview.totalResponses = <<"0">>
        /\ doc.overview.numberOfDepartments = <<"0">>
        /\ doc.overview.averageSatisfaction \in {<<"0">>, <<"0", "%">>}
        /\ doc.overview.averageDissatisfaction \in {<<"0">>, <<"0", "%">>}
        /\ \A label \in commonOptions : doc.chart[label].percentage # NaNText

-----------------------------------------------------------------------------
(* C21..C24 : the handlers of server.js under interleaving *)

InFlight(r) == r \in DOMAIN reqs /\ reqs[r].pc # "ended"

\* the request is about to read the CSV file it wrote
ReadsCSV(r) == At(r, "read")

\* the request has rendered its report and is about to download it
DownloadsReport(r) == At(r, "download")

\* the request was sent a report
Downloaded(r) == r \in DOMAIN reqs /\ reqs[r].sent # NoContent

OwnCSVIntact(r) ==
    /\ reqs[r].csvPath \in DOMAIN files
    /\ files[reqs[r].csvPath] = reqs[r].written

\* the report of the rows the request exported
OwnReport(r) ==
    [totalResponses |-> Len(reqs[r].written),
     numberOfDepartments |->
         Cardinality({reqs[r].written[i].Department : i \in 1..Len(reqs[r].written)})]

OwnReportIntact(r) ==
    /\ <<"reports", "survey_analysis.pdf">> \in DOMAIN files
    /\ files[<<"reports", "survey_analysis.pdf">>] = OwnReport(r)

\* C21: under every interleaving of two analysis requests, the CSV file a
\* request is about to read is the one it wrote, the report file it is about
\* to download is the one rendered from its own rows, and the report it was
\* sent is the report of the rows it exported.
C21_RequestsShareNoFiles ==
    \A r \in AnalysisRequests :
        /\ ReadsCSV(r) => OwnCSVIntact(r)
        /\ DownloadsReport(r) => OwnReportIntact(r)
        /\ Downloaded(r) => reqs[r].sent = OwnReport(r)

\* the handler of the request has answered and has no step left
Ended(r) == At(r, "ended")

\* C22: every analysis request that has ended (each has written its CSV file
\* before) eventually has its CSV file deleted, whether it ended in a
\* download, a download error or a failure of the analysis or the rendering.
C22_EndedRequestDeletesCSV ==
    \A r \in AnalysisRequests :
        Ended(r) ~> (Ended(r) /\ reqs[r].csvPath \notin DOMAIN files)

\* the signup was answered with an error
SignupFailed(r) == Ended(r) /\ reqs[r].reply.status = 400

\* the same signup, sent again after the first was answered
RetryOf(r2, r) ==
    /\ Ended(r2)
    /\ r \in reqs[r2].earlier
    /\ reqs[r2].body = reqs[r].body

\* C23: a signup answered with an error (the failure to send the verification
\* email included) has stored no user, and unless it was itself rejected as
\* "Email already registered" the same signup sent again is not rejected so.
C23_FailedSignupStoresNoUser ==
    \A r \in SignupRequests :
        SignupFailed(r) =>
            /\ \A u \in db.users : u.id # r
            /\ reqs[r].reply.error # "Email already registered" =>
                   \A r2 \in SignupRequests :
                       RetryOf(r2, r) => reqs[r2].reply.error # "Email already registered"

\* DELETE /api/surveys/:id has answered success
DeleteSucceeded(r) == Ended(r) /\ reqs[r].reply.status = 200

\* C24: once the deletion of a survey has answered success, no stored response
\* references that survey, whatever POST /api/responses requests for the survey
\* were interleaved with it.
C24_NoResponseOfDeletedSurvey ==
    \A r \in DeleteRequests :
        DeleteSucceeded(r) =>
            \A i \in 1..Len(db.responses) : db.responses[i].surveyId # reqs[r].surveyId

====
